---- MODULE Spec2Model ----
(***************************************************************************)
(* Model of the geodesic dome application: the geometry builders, the      *)
(* facet oracle, the facet numbering and the annotation store with its     *)
(* startup sequence, modal and rebuild orchestration.                      *)
(*                                                                         *)
(* Numbers are fixed-point integers: a length x is held as x * Scale.      *)
(***************************************************************************)
EXTENDS Integers, Sequences, FiniteSets, TLC

\* ------------------------------------------------------------------------
\* Fixed-point arithmetic and vectors
\* ------------------------------------------------------------------------

\* One unit of length; every coordinate is an integer number of 1/Scale.
Scale == 10 * 100

Abs(x) == IF x < 0 THEN -x ELSE x

\* Division rounded to the nearest integer (b > 0).
RDiv(a, b) == (2 * a + b) \div (2 * b)

RECURSIVE SqrtSearch(_, _, _)
SqrtSearch(n, lo, hi) ==
    IF lo >= hi THEN lo
    ELSE LET mid == (lo + hi + 1) \div 2
         IN  IF mid * mid <= n THEN SqrtSearch(n, mid, hi)
                               ELSE SqrtSearch(n, lo, mid - 1)

\* The nearer of r and r + 1 to the square root of n, r being its floor.
SqrtRound(n, r) == IF n - r * r > r THEN r + 1 ELSE r

\* Math.sqrt on integers: the nearest integer to the square root of n.
Sqrt(n) == SqrtRound(n, SqrtSearch(n, 0, 46340))

Vec(x, y, z) == [x |-> x, y |-> y, z |-> z]

Zero3 == Vec(0, 0, 0)

addVectors(a, b) == Vec(a.x + b.x, a.y + b.y, a.z + b.z)

subVectors(a, b) == Vec(a.x - b.x, a.y - b.y, a.z - b.z)

\* multiplyScalar by a fixed-point factor k (k = Scale is 1.0).
multiplyScalar(v, k) ==
    Vec(RDiv(v.x * k, Scale), RDiv(v.y * k, Scale), RDiv(v.z * k, Scale))

negate(v) == Vec(-v.x, -v.y, -v.z)

\* Vector3.dot of two fixed-point vectors, as a fixed-point number.
dot(a, b) == RDiv(a.x * b.x + a.y * b.y + a.z * b.z, Scale)

\* Vector3.crossVectors, fixed-point.
crossVectors(a, b) ==
    Vec(RDiv(a.y * b.z - a.z * b.y, Scale),
        RDiv(a.z * b.x - a.x * b.z, Scale),
        RDiv(a.x * b.y - a.y * b.x, Scale))

length(v) == Sqrt(v.x * v.x + v.y * v.y + v.z * v.z)

\* Vector3.divideScalar by a fixed-point divisor d > 0.
divideScalar(v, d) ==
    Vec(RDiv(v.x * Scale, d), RDiv(v.y * Scale, d), RDiv(v.z * Scale, d))

\* length() || 1
lengthOrOne(l) == IF l = 0 THEN Scale ELSE l

\* Vector3.normalize: divideScalar(length() || 1).
normalize(v) == divideScalar(v, lengthOrOne(length(v)))

\* const domeRadius = 2
domeRadius == 2

\* const tolerance = 0.05 (hemisphere cut), in fixed point.
tolerance == 50

\* ------------------------------------------------------------------------
\* Sequence helpers
\* ------------------------------------------------------------------------

\* The concatenation of the sequences of ss, each of length n.
FlattenSeq(ss, n) ==
    [i \in 1..(n * Len(ss)) |-> ss[((i - 1) \div n) + 1][((i - 1) % n) + 1]]

Range(s) == {s[i] : i \in DOMAIN s}

Min2(a, b) == IF a < b THEN a ELSE b

Max2(a, b) == IF a < b THEN b ELSE a

\* ------------------------------------------------------------------------
\* Geometry builders.  A mesh is [vertices: Seq(Vec), faces: Seq(<<a,b,c>>)]
\* with 0-based vertex indices, as in the source: vertex i is vertices[i+1].
\* ------------------------------------------------------------------------

\* Math.cos / Math.sin of k * 2*PI/10, fixed-point.
Cos10 == <<1000, 809, 309, -309, -809, -1000, -809, -309, 309, 809>>

Sin10 == <<0, 588, 951, 951, 588, 0, -588, -951, -951, -588>>

cosTenth(k) == Cos10[(k % 10) + 1]

sinTenth(k) == Sin10[(k % 10) + 1]

\* main.ts create2VGeodesicDome: apex, ring of 5, ring of 10, base ring of 10.
ringVertices(radius) ==
    LET layer2Y == RDiv(radius * 809 * Scale, 1000)
        layer2Radius == RDiv(radius * 588 * Scale, 1000)
        layer3Y == RDiv(radius * 309 * Scale, 1000)
        layer3Radius == RDiv(radius * 951 * Scale, 1000)
        baseRadius == radius * Scale
    IN  <<Vec(0, radius * Scale, 0)>>
        \o [i \in 1..5 |->
              Vec(RDiv(layer2Radius * cosTenth(2 * (i - 1)), Scale), layer2Y,
                  RDiv(layer2Radius * sinTenth(2 * (i - 1)), Scale))]
        \o [i \in 1..10 |->
              Vec(RDiv(layer3Radius * cosTenth(i - 1), Scale), layer3Y,
                  RDiv(layer3Radius * sinTenth(i - 1), Scale))]
        \o [i \in 1..10 |->
              Vec(RDiv(baseRadius * cosTenth(i - 1), Scale), 0,
                  RDiv(baseRadius * sinTenth(i - 1), Scale))]

\* A face list of 40 triangles: the apex fan, then triangles of three
\* consecutive vertex indices, the last triangle given twice.
ringFacesRepeated ==
    [k \in 1..40 |-> IF k = 39 THEN <<15, 16, 6>> ELSE
                     IF k = 40 THEN <<15, 16, 6>> ELSE
                     IF k <= 5 THEN <<0, k, (k % 5) + 1>> ELSE <<k % 26, (k + 1) % 26, (k + 2) % 26>>]

ringFaces ==
    [k \in 1..5 |-> LET i == k - 1 IN <<0, i + 1, ((i + 1) % 5) + 1>>]
    \o FlattenSeq([k \in 1..5 |->
          LET i == k - 1
              layer2Vertex == i + 1
              nextLayer2 == ((i + 1) % 5) + 1
              layer3Vertex1 == i * 2 + 6
              layer3Vertex2 == ((i * 2 + 1) % 10) + 6
              nextLayer3 == (((i + 1) * 2) % 10) + 6
          IN  << <<layer2Vertex, layer3Vertex1, layer3Vertex2>>,
                 <<layer2Vertex, layer3Vertex2, nextLayer2>>,
                 <<nextLayer2, layer3Vertex2, nextLayer3>> >>], 3)
    \o FlattenSeq([k \in 1..10 |->
          LET i == k - 1
              layer3Vertex == i + 6
              nextLayer3 == ((i + 1) % 10) + 6
              baseVertex == i + 16
              nextBaseVertex == ((i + 1) % 10) + 16
          IN  << <<layer3Vertex, baseVertex, nextBaseVertex>>,
                 <<layer3Vertex, nextBaseVertex, nextLayer3>> >>], 2)

create2VGeodesicDomeRing(radius) ==
    [vertices |-> ringVertices(radius), faces |-> ringFaces]

\* The elements of s in order, each only at its first occurrence (a Map or
\* Set filled in iteration order).
Dedup(s) ==
    LET first == SelectSeq([i \in 1..Len(s) |-> i],
                           LAMBDA i : \A j \in 1..(i - 1) : s[j] # s[i])
    IN  [k \in 1..Len(first) |-> s[first[k]]]

IndexOf(s, x) == CHOOSE i \in DOMAIN s : s[i] = x

\* const phi = (1 + Math.sqrt(5)) / 2, fixed-point.
phi == RDiv(Scale + Sqrt(5 * Scale * Scale), 2)

\* Hemisphere test of one face: all three vertices at height >= -tolerance.
inHemisphere(vA, vB, vC) ==
    vA.y >= -tolerance /\ vB.y >= -tolerance /\ vC.y >= -tolerance

\* ---- Method 2: subdivision of the base face table ----

baseVertices ==
    LET raw == << Vec(-Scale, phi, 0), Vec(Scale, phi, 0), Vec(0, Scale, phi),
                  Vec(0, Scale, -phi), Vec(-phi, 0, Scale), Vec(-phi, 0, -Scale),
                  Vec(phi, 0, Scale), Vec(phi, 0, -Scale), Vec(0, -Scale, phi),
                  Vec(0, -Scale, -phi), Vec(-Scale, -phi, 0), Vec(Scale, -phi, 0) >>
    IN  [i \in 1..12 |-> normalize(raw[i])]

baseFaces ==
    << <<0, 2, 1>>, <<0, 3, 2>>, <<0, 1, 3>>, <<1, 2, 6>>, <<2, 3, 4>>,
       <<3, 1, 7>>, <<4, 5, 0>>, <<5, 6, 1>>, <<6, 7, 1>>, <<7, 4, 3>>,
       <<4, 0, 5>>, <<5, 1, 0>>, <<6, 2, 7>>, <<7, 3, 4>>, <<2, 4, 6>>,
       <<4, 7, 6>>, <<8, 9, 10>>, <<8, 10, 11>>, <<9, 11, 10>>, <<8, 11, 9>> >>

\* `${Math.min(v1, v2)}-${Math.max(v1, v2)}`
edgeKey(v1, v2) == <<Min2(v1, v2), Max2(v1, v2)>>

\* The edge keys in the order the loop over baseFaces first meets them.
edges ==
    Dedup(FlattenSeq([f \in 1..Len(baseFaces) |->
            [i \in 1..3 |-> edgeKey(baseFaces[f][i], baseFaces[f][(i % 3) + 1])]], 3))

\* subdivisionMap.get(key): the vertex index of the midpoint of that edge.
subdivisionMap(key) == Len(baseVertices) + IndexOf(edges, key) - 1

midpoint(key) ==
    normalize(multiplyScalar(addVectors(baseVertices[key[1] + 1], baseVertices[key[2] + 1]),
                             Scale \div 2))

\* vertices.forEach(v => v.multiplyScalar(radius))
scaleVertices(unit, radius) ==
    [i \in 1..Len(unit) |-> multiplyScalar(unit[i], radius * Scale)]

\* Step 3 and the scaling of step 5: the 12 base vertices, then one midpoint
\* per distinct edge, all multiplied by the radius.
subdividedVertices(radius) ==
    scaleVertices(baseVertices \o [e \in 1..Len(edges) |-> midpoint(edges[e])], radius)

\* The 4 triangles of a base face a, b, c with edge midpoints ab, bc, ca.
fourTriangles(a, b, c, ab, bc, ca) ==
    << <<a, ab, ca>>, <<b, bc, ab>>, <<c, ca, bc>>, <<ab, bc, ca>> >>

\* Step 4: each base face becomes 4 triangles.
subdividedFaces ==
    FlattenSeq([f \in 1..Len(baseFaces) |->
        fourTriangles(baseFaces[f][1], baseFaces[f][2], baseFaces[f][3],
                      subdivisionMap(edgeKey(baseFaces[f][1], baseFaces[f][2])),
                      subdivisionMap(edgeKey(baseFaces[f][2], baseFaces[f][3])),
                      subdivisionMap(edgeKey(baseFaces[f][3], baseFaces[f][1])))], 4)

\* The extraction pushing a vertex for every corner of every kept face.
extractHemisphereUnshared(vertices, faces) ==
    LET keptFaces == SelectSeq(faces, LAMBDA f :
                        inHemisphere(vertices[f[1] + 1], vertices[f[2] + 1],
                                     vertices[f[3] + 1]))
    IN  [vertices |-> [i \in 1..(3 * Len(keptFaces)) |->
                          vertices[keptFaces[((i - 1) \div 3) + 1][((i - 1) % 3) + 1] + 1]],
         faces |-> [k \in 1..Len(keptFaces) |->
                          [j \in 1..3 |-> 3 * (k - 1) + j - 1]]]

\* The extraction leaving the kept faces on the indices of the full sphere.
extractHemisphereKeepingIndices(vertices, faces) ==
    LET keptFaces == SelectSeq(faces, LAMBDA f :
                        inHemisphere(vertices[f[1] + 1], vertices[f[2] + 1],
                                     vertices[f[3] + 1]))
        hemisphereVertexMap == Dedup(FlattenSeq(keptFaces, 3))
    IN  [vertices |-> [i \in 1..Len(hemisphereVertexMap) |->
                          vertices[hemisphereVertexMap[i] + 1]],
         faces |-> keptFaces]

\* Step 5: keep the faces in the hemisphere and remap their vertices to a
\* dense index space in order of first use (hemisphereVertexMap).
extractHemisphere(vertices, faces) ==
    LET keptFaces == SelectSeq(faces, LAMBDA f :
                        inHemisphere(vertices[f[1] + 1], vertices[f[2] + 1],
                                     vertices[f[3] + 1]))
        hemisphereVertexMap == Dedup(FlattenSeq(keptFaces, 3))
    IN  [vertices |-> [i \in 1..Len(hemisphereVertexMap) |->
                          vertices[hemisphereVertexMap[i] + 1]],
         faces |-> [k \in 1..Len(keptFaces) |->
                          [j \in 1..3 |->
                              IndexOf(hemisphereVertexMap, keptFaces[k][j]) - 1]]]

create2VGeodesicDomeMethod2(radius) ==
    extractHemisphere(subdividedVertices(radius), subdividedFaces)

\* ---- Method 1: THREE.IcosahedronGeometry(radius, 1), non-indexed ----

icosahedronVertices ==
    << Vec(-Scale, phi, 0), Vec(Scale, phi, 0), Vec(-Scale, -phi, 0),
       Vec(Scale, -phi, 0), Vec(0, -Scale, phi), Vec(0, Scale, phi),
       Vec(0, -Scale, -phi), Vec(0, Scale, -phi), Vec(phi, 0, -Scale),
       Vec(phi, 0, Scale), Vec(-phi, 0, -Scale), Vec(-phi, 0, Scale) >>

icosahedronIndices ==
    << <<0, 11, 5>>, <<0, 5, 1>>, <<0, 1, 7>>, <<0, 7, 10>>, <<0, 10, 11>>,
       <<1, 5, 9>>, <<5, 11, 4>>, <<11, 10, 2>>, <<10, 7, 6>>, <<7, 1, 8>>,
       <<3, 9, 4>>, <<3, 4, 2>>, <<3, 2, 6>>, <<3, 6, 8>>, <<3, 8, 9>>,
       <<4, 9, 5>>, <<2, 4, 11>>, <<6, 2, 10>>, <<8, 6, 7>>, <<9, 8, 1>> >>

\* Vector3.lerp(b, 1/2)
lerpHalf(a, b) ==
    Vec(a.x + RDiv(b.x - a.x, 2), a.y + RDiv(b.y - a.y, 2), a.z + RDiv(b.z - a.z, 2))

\* PolyhedronGeometry.subdivideFace with detail 1: the 4 triangles of one
\* face, as 12 positions.
subdivideFace(a, b, c) ==
    LET v00 == a
        v01 == lerpHalf(a, b)
        v02 == b
        v10 == lerpHalf(a, c)
        v11 == lerpHalf(b, c)
        v20 == c
    IN  <<v01, v10, v00,  v01, v11, v10,  v02, v11, v01,  v11, v20, v10>>

\* applyRadius: every position put on the sphere of the given radius.
applyRadius(flat, radius) ==
    [i \in 1..Len(flat) |-> multiplyScalar(normalize(flat[i]), radius * Scale)]

\* icosahedron.attributes.position: 3 positions per triangle.
icosahedronPositions(radius) ==
    applyRadius(FlattenSeq([f \in 1..Len(icosahedronIndices) |->
                    subdivideFace(icosahedronVertices[icosahedronIndices[f][1] + 1],
                                  icosahedronVertices[icosahedronIndices[f][2] + 1],
                                  icosahedronVertices[icosahedronIndices[f][3] + 1])], 12),
                radius)

\* The triangles of the position array that lie in the hemisphere.
hemisphereTriangles(positions) ==
    SelectSeq([t \in 1..(Len(positions) \div 3) |-> t], LAMBDA t :
        inHemisphere(positions[3 * t - 2], positions[3 * t - 1], positions[3 * t]))

\* hemisphereVertices and hemisphereFaces: a kept triangle pushes its three
\* positions and the indices of those.
pushHemisphereFaces(positions, kept) ==
    [vertices |-> FlattenSeq([k \in 1..Len(kept) |->
                      <<positions[3 * kept[k] - 2], positions[3 * kept[k] - 1],
                        positions[3 * kept[k]]>>], 3),
     faces |-> [k \in 1..Len(kept) |->
                  <<3 * (k - 1), 3 * (k - 1) + 1, 3 * (k - 1) + 2>>]]

\* The loop over the position array, 3 positions at a time.
processFaces(positions) == pushHemisphereFaces(positions, hemisphereTriangles(positions))

create2VGeodesicDomeMethod1(radius) == processFaces(icosahedronPositions(radius))

\* create2VGeodesicDome: Method 2 when currentMethod === 2, else Method 1.
create2VGeodesicDome(method, radius) ==
    IF method = 2 THEN create2VGeodesicDomeMethod2(radius)
                  ELSE create2VGeodesicDomeMethod1(radius)

\* The three meshes of radius domeRadius, built once.
RingMesh == create2VGeodesicDomeRing(domeRadius)

Method1Mesh == create2VGeodesicDome(1, domeRadius)

Method2Mesh == create2VGeodesicDome(2, domeRadius)

\* ------------------------------------------------------------------------
\* Facet oracle
\* ------------------------------------------------------------------------

\* An index read past the end of a typed array gives undefined.
Undefined == -1

\* A THREE.BufferGeometry: position attribute and (when indexed) the index.
\* A variable that holds no geometry (undefined) has defined = FALSE.
BufferGeometry(mesh, indexed) ==
    [defined |-> TRUE, indexed |-> indexed, mesh |-> mesh]

NoGeometry ==
    [defined |-> FALSE, indexed |-> FALSE, mesh |-> [vertices |-> <<>>, faces |-> <<>>]]

\* The number of facets of the mesh a geometry was built from.
faceCount(geom) == Len(geom.mesh.faces)

\* geom.index.getX(i): element i of the flattened face list, or undefined.
indexGetX(geom, i) ==
    IF i \in 0..(3 * Len(geom.mesh.faces) - 1)
    THEN geom.mesh.faces[(i \div 3) + 1][(i % 3) + 1]
    ELSE Undefined

\* new Vector3().fromBufferAttribute(posAttr, idx): reading at an undefined
\* or out-of-range index gives undefined components (NaN in arithmetic).
fromBufferAttribute(geom, idx) ==
    IF idx \in 0..(Len(geom.mesh.vertices) - 1)
    THEN [nan |-> FALSE, v |-> geom.mesh.vertices[idx + 1]]
    ELSE [nan |-> TRUE, v |-> Zero3]

\* The null result.
NullFace == [ok |-> FALSE, nan |-> FALSE, centroid |-> Zero3, normal |-> Zero3]

\* if (normal.dot(toCenter) > 0) normal.negate()
flipOutward(normal, toCenter) ==
    IF dot(normal, toCenter) > 0 THEN negate(normal) ELSE normal

\* The two early returns of the oracle: no geometry, or no index buffer.
returnsNull(geom) == ~geom.defined \/ ~geom.indexed

\* The result for a centroid and the normal of the vertex order: the normal
\* is flipped when it points to the dome centre.
centroidAndNormal(centroid, normal) ==
    [ok |-> TRUE, nan |-> FALSE, centroid |-> centroid,
     normal |-> flipOutward(normal, normalize(subVectors(Zero3, centroid)))]

\* The centroid add(vA).add(vB).add(vC).divideScalar(3) and the normal
\* crossVectors(cb, ab).normalize() of three vertex positions.
faceOfVertices(vA, vB, vC) ==
    centroidAndNormal(divideScalar(addVectors(addVectors(vA, vB), vC), 3 * Scale),
                      normalize(crossVectors(subVectors(vC, vB), subVectors(vA, vB))))

\* The result for three reads of the position attribute; a read past the
\* buffer makes every component NaN.
faceOfReads(pA, pB, pC) ==
    IF pA.nan \/ pB.nan \/ pC.nan
    THEN [ok |-> TRUE, nan |-> TRUE, centroid |-> Zero3, normal |-> Zero3]
    ELSE faceOfVertices(pA.v, pB.v, pC.v)

getFaceCentroidAndNormal(geom, faceIdx) ==
    IF returnsNull(geom) THEN NullFace
    ELSE faceOfReads(fromBufferAttribute(geom, indexGetX(geom, faceIdx * 3)),
                     fromBufferAttribute(geom, indexGetX(geom, faceIdx * 3 + 1)),
                     fromBufferAttribute(geom, indexGetX(geom, faceIdx * 3 + 2)))

\* The visibility threshold 0.1, fixed-point.
visibleThreshold == Scale \div 10

\* The threshold taken as 0 and the tie let through.
exceedsThresholdOrTie(dotProduct) == dotProduct >= 0

\* dotProduct > 0.1; a comparison with NaN is false.
exceedsThreshold(dotProduct) == dotProduct > visibleThreshold

\* The body of isFaceVisible for the oracle's result: false without one,
\* true without the dome group, else the test of worldNormal against the
\* cameraDirection from the worldCentroid.
facesCamera(face, cameraPosition, domeGroupDefined) ==
    IF ~face.ok THEN FALSE
    ELSE IF ~domeGroupDefined THEN TRUE
    ELSE IF face.nan THEN FALSE
    ELSE exceedsThreshold(dot(normalize(face.normal),
                              normalize(subVectors(cameraPosition, face.centroid))))

\* isFaceVisible.  The dome group is never moved, so its matrixWorld is the
\* identity: localToWorld leaves the centroid, transformDirection normalizes.
isFaceVisible(geom, faceIdx, cameraPosition, domeGroupDefined) ==
    facesCamera(getFaceCentroidAndNormal(geom, faceIdx), cameraPosition,
                domeGroupDefined)

\* ------------------------------------------------------------------------
\* Facet numbering
\* ------------------------------------------------------------------------

\* const heightTolerance = 0.2, fixed-point.
heightTolerance == 200

\* The elements of s ordered by Before, equal elements keeping their order
\* (Array.prototype.sort is stable).
StableSort(s, Before(_, _)) ==
    LET n == Len(s)
        rank(i) == Cardinality({j \in 1..n :
                        \/ Before(s[j], s[i])
                        \/ (~Before(s[i], s[j]) /\ j < i)}) + 1
    IN  [k \in 1..n |-> s[CHOOSE i \in 1..n : rank(i) = k]]

\* The entry of a facet with the oracle's result for it.
heightEntry(index, face) ==
    [index |-> index, ok |-> face.ok, y |-> face.centroid.y, centroid |-> face.centroid]

\* The {index, y, centroid} objects pushed for the facets with a result.
pushedEntries(kept) ==
    [k \in 1..Len(kept) |->
        [index |-> kept[k].index, y |-> kept[k].y, centroid |-> kept[k].centroid]]

\* if (faceData) faceHeights.push({index, y, centroid})
pushFaceHeights(all) == pushedEntries(SelectSeq(all, LAMBDA e : e.ok))

\* The first loop: one {index, y, centroid} entry per facet the oracle
\* gives a result for.
collectFaceHeights(geom, totalFaces) ==
    pushFaceHeights([k \in 1..totalFaces |->
                        heightEntry(k - 1, getFaceCentroidAndNormal(geom, k - 1))])

\* The comparator with its operands swapped: lowest first.
lowerFirst(a, b) == a.y - b.y < 0

\* (a, b) => b.y - a.y : a sorts before b when it is higher.
higherFirst(a, b) == b.y - a.y < 0

\* The tolerance taken three times too wide.
withinThriceTolerance(levelY, faceY) == Abs(levelY - faceY) < 3 * heightTolerance

\* The tolerance taken ten times too small.
withinTenthOfTolerance(levelY, faceY) == Abs(levelY - faceY) < heightTolerance \div 10

\* Math.abs(level[0].centroid.y - face.y) < heightTolerance
withinTolerance(levelY, faceY) == Abs(levelY - faceY) < heightTolerance

\* One iteration of faceHeights.forEach: the face joins the first level
\* whose first entry is within the tolerance, else it opens a new level.
addToLevels(levels, face) ==
    LET entry == [index |-> face.index, centroid |-> face.centroid]
        found == {l \in 1..Len(levels) :
                    Len(levels[l]) > 0
                    /\ withinTolerance(levels[l][1].centroid.y, face.y)}
    IN  IF found = {} THEN Append(levels, <<entry>>)
        ELSE LET l == CHOOSE m \in found : \A o \in found : m <= o
             IN  [levels EXCEPT ![l] = Append(levels[l], entry)]

\* The position of Math.atan2(z, x) in (-PI, PI]: 0 below the x axis, 1 on
\* the positive x axis (and at the origin), 2 above, 3 on the negative axis.
angleSector(c) ==
    IF c.z < 0 THEN 0
    ELSE IF c.z > 0 THEN 2
    ELSE IF c.x >= 0 THEN 1 ELSE 3

\* Math.atan2(a.z, a.x) - Math.atan2(b.z, b.x) < 0
angleBefore(a, b) ==
    \/ angleSector(a.centroid) < angleSector(b.centroid)
    \/ /\ angleSector(a.centroid) = angleSector(b.centroid)
       /\ angleSector(a.centroid) \in {0, 2}
       /\ a.centroid.x * b.centroid.z - a.centroid.z * b.centroid.x > 0

\* The angle sort applied to each level taken back to front, so that equal
\* angles come out in the opposite order.
sortLevelsByAngleBackToFront(levels) ==
    [l \in 1..Len(levels) |->
        StableSort([i \in 1..Len(levels[l]) |-> levels[l][Len(levels[l]) + 1 - i]],
                   angleBefore)]

\* levels.forEach(level => level.sort(by angle))
sortLevelsByAngle(levels) ==
    [l \in 1..Len(levels) |-> StableSort(levels[l], angleBefore)]

\* The faces of all levels in order: the n-th of them gets number n.
numberingOrder(levels) ==
    LET size == [l \in 0..Len(levels) |->
                    Cardinality(UNION {{<<m, i>> : i \in 1..Len(levels[m])} : m \in 1..l})]
    IN  [n \in 1..size[Len(levels)] |->
            LET l == CHOOSE m \in 1..Len(levels) : size[m - 1] < n /\ n <= size[m]
            IN  levels[l][n - size[l - 1]].index]

\* The last loop: logicalNumbering[face.index] = logicalNumber++ over an
\* array of totalFaces slots; a slot never written stays empty (0 here).
assignNumbers(levels, totalFaces) ==
    LET order == numberingOrder(levels)
    IN  [f \in 0..(totalFaces - 1) |->
            IF \E n \in 1..Len(order) : order[n] = f
            THEN CHOOSE n \in 1..Len(order) :
                    order[n] = f /\ \A o \in 1..Len(order) : order[o] = f => o <= n
            ELSE 0]

\* ------------------------------------------------------------------------
\* Texts, keys and the persistence format
\* ------------------------------------------------------------------------

\* A text is a sequence of one-character strings. The texts a user types:
\* nothing, blanks only, a word, and a word between blanks.
TypedTexts == {<<>>, <<" ">>, <<"a">>, <<" ", "b", " ">>}

IsBlank(ch) == ch = " "

\* String.prototype.trim: the text without leading and trailing blanks.
trim(text) ==
    LET solid == {i \in 1..Len(text) : ~IsBlank(text[i])}
    IN  IF solid = {} THEN <<>>
        ELSE LET first == CHOOSE i \in solid : \A j \in solid : i <= j
                 last == CHOOSE i \in solid : \A j \in solid : j <= i
             IN  SubSeq(text, first, last)

\* A JavaScript condition on a string: the empty string is falsy.
truthy(text) == Len(text) > 0

Digits == <<"0", "1", "2", "3", "4", "5", "6", "7", "8", "9">>

IsDigit(ch) == \E d \in 1..10 : Digits[d] = ch

DigitValue(ch) == (CHOOSE d \in 1..10 : Digits[d] = ch) - 1

\* The key a Map holds for NaN.
NaNKey == -1

RECURSIVE toDigits(_)
toDigits(n) ==
    IF n < 10 THEN <<Digits[n + 1]>>
    ELSE Append(toDigits(n \div 10), Digits[(n % 10) + 1])

\* String(n), the property name Object.fromEntries gives to key n.
toString(n) == IF n = NaNKey THEN <<"N", "a", "N">> ELSE toDigits(n)

RECURSIVE digitsValue(_, _)
digitsValue(text, acc) ==
    IF text = <<>> \/ ~IsDigit(Head(text)) THEN acc
    ELSE digitsValue(Tail(text), 10 * acc + DigitValue(Head(text)))

\* parseInt(text): the number its leading digits spell, NaN without one.
parseInt(text) ==
    IF text = <<>> \/ ~IsDigit(Head(text)) THEN NaNKey
    ELSE digitsValue(text, 0)

\* A localStorage item: absent (getItem gives null), text that is not JSON,
\* or a JSON object, held as its <<property name, text>> pairs in order.
NoItem == [kind |-> "none", entries |-> <<>>]

CorruptItem == [kind |-> "corrupt", entries |-> <<>>]

JsonItem(entries) == [kind |-> "json", entries |-> entries]

\* The keys of a map in property order: integers ascending, then "NaN".
keyOrder(map) ==
    LET ints == (DOMAIN map) \ {NaNKey}
        asc == [k \in 1..Cardinality(ints) |->
                   CHOOSE i \in ints : Cardinality({j \in ints : j < i}) = k - 1]
    IN  IF NaNKey \in DOMAIN map THEN Append(asc, NaNKey) ELSE asc

\* JSON.stringify(Object.fromEntries(faceData))
stringifyFaceData(map) ==
    JsonItem([k \in 1..Len(keyOrder(map)) |->
                 <<toString(keyOrder(map)[k]), map[keyOrder(map)[k]]>>])

\* The map after entries.forEach(([key, value]) => ...set(parseInt(key), value)):
\* every entry is set (overwrite), or only those whose key the map lacks.
RECURSIVE setEntries(_, _, _)
setEntries(entries, map, overwrite) ==
    IF entries = <<>> THEN map
    ELSE LET faceIndex == parseInt(Head(entries)[1])
             value == Head(entries)[2]
             next == IF overwrite \/ faceIndex \notin DOMAIN map
                     THEN [i \in (DOMAIN map) \cup {faceIndex} |->
                              IF i = faceIndex THEN value ELSE map[i]]
                     ELSE map
         IN  setEntries(Tail(entries), next, overwrite)

EmptyMap == [i \in {} |-> <<>>]

\* The notes written under one-based keys, as the modal title counts.
saveFaceDataOneBased(map) ==
    JsonItem([k \in 1..Len(keyOrder(map)) |->
                 <<toString(keyOrder(map)[k] + 1), map[keyOrder(map)[k]]>>])

\* saveFaceDataToStorage: the new value of the notes item.
saveFaceDataToStorage(map) == stringifyFaceData(map)

\* loadFaceDataFromStorage: the map after loading the notes item; a missing
\* item leaves the map alone, as does one JSON.parse throws on.
loadFaceDataFromStorage(item, map) ==
    IF item.kind = "json" THEN setEntries(item.entries, EmptyMap, TRUE)
    ELSE map

\* The merge with every seed entry set, existing entries included.
loadInitialFaceDataOverwriting(seed, map) ==
    IF seed.kind = "json" THEN setEntries(seed.entries, map, TRUE)
    ELSE map

\* loadInitialFaceData after the fetch: a seed entry is installed only where
\* the map has no entry; a failed fetch or parse leaves the map alone.
loadInitialFaceData(seed, map) ==
    IF seed.kind = "json" THEN setEntries(seed.entries, map, FALSE)
    ELSE map

\* The selector item of localStorage: absent, or a text.
NoMethodItem == [present |-> FALSE, text |-> <<>>]

MethodItem(text) == [present |-> TRUE, text |-> text]

\* The save writing the method that was in force at page load.
saveMethodToStorageDefault(method) == MethodItem(toString(1))

\* saveMethodToStorage: setItem(METHOD_STORAGE_KEY, currentMethod.toString())
saveMethodToStorage(method) == MethodItem(toString(method))

\* The load adopting whatever number the stored selector parses to.
loadMethodFromStorageUnvalidated(item, method) ==
    IF item.present /\ truthy(item.text)
    THEN LET parsedMethod == parseInt(item.text)
         IN  IF parsedMethod # NaNKey THEN parsedMethod ELSE method
    ELSE method

\* loadMethodFromStorage: the stored selector when it parses to 1 or 2,
\* else the method in force.
loadMethodFromStorage(item, method) ==
    IF item.present /\ truthy(item.text)
    THEN LET parsedMethod == parseInt(item.text)
         IN  IF parsedMethod = 1 \/ parsedMethod = 2 THEN parsedMethod ELSE method
    ELSE method

\* ------------------------------------------------------------------------
\* State
\* ------------------------------------------------------------------------

VARIABLES
    \* The application (main module and modal).
    phase,             \* "unloaded", "fetching" (seed fetch in flight), "ready"
    storedNotes,       \* localStorage item STORAGE_KEY
    storedMethod,      \* localStorage item METHOD_STORAGE_KEY
    currentMethod,     \* let currentMethod
    faceData,          \* Map faceIndex -> note text
    faceLabels,        \* Map faceIndex -> label, a label knowing its parent group
    geodesicData,      \* the method whose mesh geodesicData holds, 0 before any
    domeGroup,         \* whether domeGroup is defined
    domeMesh,          \* whether domeMesh is defined
    completeGeometry,  \* the method whose mesh completeGeometry holds, 0 when undefined
    pendingTimers,     \* setTimeout callbacks of rebuildDome not yet run
    modalShown,        \* modal.style.display is 'flex'
    currentFaceIndex,  \* ui.ts currentFaceIndex, Null when null
    textInput,         \* textInput.value
    seedFile,          \* what the fetch of /src/initial-data.json yields
    faceNumberLabels,  \* the length of the array faceNumberLabels; every slot below it holds a label
    domeGroupNumberLabels, \* the number labels domeGroup holds: per run of addFaceNumbers the
                       \* number n of labels it added, one for each facet 0..n-1
    lastOp,            \* history: how each facet last got or lost its text
    lastClick,         \* history: the last click handler that ran, "none" before
    lastFrame,         \* history: what updateLabelVisibility did in the last frame
    \* One query of the facet oracle.
    oKind, oIndexed, oDomeGroup, oFace, oCamera, oPc, oResult, oVisible,
    \* One run of createLogicalFaceNumbering.
    nMethod, nPc, nFaceHeights, nNext, nLevels, nNumbering

appVars == <<phase, storedNotes, storedMethod, currentMethod, faceData, faceLabels,
             geodesicData, domeGroup, domeMesh, completeGeometry,
             pendingTimers, modalShown, currentFaceIndex, textInput, seedFile,
             faceNumberLabels, domeGroupNumberLabels, lastOp, lastClick, lastFrame>>

oracleVars == <<oKind, oIndexed, oDomeGroup, oFace, oCamera, oPc, oResult, oVisible>>

numberingVars == <<nMethod, nPc, nFaceHeights, nNext, nLevels, nNumbering>>

vars == <<appVars, oracleVars, numberingVars>>

\* ui.ts: let currentFaceIndex: number | null = null
Null == -1

\* The mesh each method builds.
MeshOfMethod(method) == IF method = 2 THEN Method2Mesh ELSE Method1Mesh

\* The BufferGeometry the variable completeGeometry refers to.
geometryOf(cg) ==
    IF cg = 0 THEN NoGeometry
    ELSE BufferGeometry(MeshOfMethod(cg), TRUE)

\* The values of the module's variables before its code has run.
AppUnloaded ==
    /\ phase = "unloaded"
    /\ currentMethod = 1
    /\ faceData = EmptyMap
    /\ faceLabels = EmptyMap
    /\ geodesicData = 0
    /\ domeGroup = FALSE
    /\ domeMesh = FALSE
    /\ completeGeometry = 0
    /\ pendingTimers = 0
    /\ modalShown = FALSE
    /\ currentFaceIndex = Null
    /\ textInput = <<>>
    /\ lastOp = EmptyMap
    /\ faceNumberLabels = 0
    /\ domeGroupNumberLabels = <<>>
    /\ lastClick = "none"
    /\ lastFrame = "none"

AppParked ==
    /\ AppUnloaded
    /\ storedNotes = NoItem
    /\ storedMethod = NoMethodItem
    /\ seedFile = NoItem

OracleParked ==
    /\ oKind = "m1"
    /\ oIndexed = TRUE
    /\ oDomeGroup = TRUE
    /\ oFace = 0
    /\ oCamera = Zero3
    /\ oPc = "parked"
    /\ oResult = NullFace
    /\ oVisible = FALSE

NumberingParked ==
    /\ nMethod = 1
    /\ nPc = "parked"
    /\ nFaceHeights = <<>>
    /\ nNext = 0
    /\ nLevels = <<>>
    /\ nNumbering = <<>>

\* ------------------------------------------------------------------------
\* The application: startup, the modal, Save and Clear, the method selector
\* ------------------------------------------------------------------------

\* Map.prototype.set and Map.prototype.delete.
MapSet(map, key, value) ==
    [i \in (DOMAIN map) \cup {key} |-> IF i = key THEN value ELSE map[i]]

MapDelete(map, key) == [i \in (DOMAIN map) \ {key} |-> map[i]]

\* The label of a text is made and stored when the oracle has a result.
placeLabel(removed, faceIndex, text, face, group) ==
    IF face.ok
    THEN MapSet(removed, faceIndex, [text |-> text, inGroup |-> group, nan |-> face.nan])
    ELSE removed

\* updateFaceLabel keeping the label of a facet whose text is blank or gone.
updateFaceLabelKeepingOld(labels, faceIndex, text, geom, group) ==
    IF truthy(text) /\ trim(text) # <<>>
    THEN placeLabel(MapDelete(labels, faceIndex), faceIndex, text,
                    getFaceCentroidAndNormal(geom, faceIndex), group)
    ELSE labels

\* updateFaceLabel: the labels afterwards. The old label of the facet goes;
\* a non-blank text gets a label when the oracle returns a facet, placed at
\* a NaN position when the oracle read past the index buffer.
updateFaceLabel(labels, faceIndex, text, geom, group) ==
    IF truthy(text) /\ trim(text) # <<>>
    THEN placeLabel(MapDelete(labels, faceIndex), faceIndex, text,
                    getFaceCentroidAndNormal(geom, faceIndex), group)
    ELSE MapDelete(labels, faceIndex)

\* faceData.forEach((text, index) => updateFaceLabel(index, text))
RECURSIVE labelEach(_, _, _, _, _)
labelEach(keys, map, labels, geom, group) ==
    IF keys = <<>> THEN labels
    ELSE labelEach(Tail(keys), map,
                   updateFaceLabel(labels, Head(keys), map[Head(keys)], geom, group),
                   geom, group)

labelAll(map, labels, geom, group) == labelEach(keyOrder(map), map, labels, geom, group)

\* geodesicData.faces.length for the mesh geodesicData holds.
totalFacesOf(gd) == IF gd = 0 THEN 0 ELSE Len(MeshOfMethod(gd).faces)

\* How many facets of the loop of addFaceNumbers the oracle gives a result
\* for: its result is null exactly on its early returns, whatever the facet
\* index, so it is all of 0..total-1 or none.
numberedBy(geom, total) == IF returnsNull(geom) THEN 0 ELSE total

\* domeGroup.add(label) for each of the facets 0..made-1.
addChildren(children, made) == Append(children, made)

\* faceNumberLabels[faceIndex] = label for each of the facets 0..made-1.
storeNumberLabels(len, made) == Max2(len, made)

\* addFaceNumbers: nothing without domeGroup; else a new number label per
\* facet is added to the dome group and stored at faceNumberLabels[faceIndex].
\* The text of a label is the facet's number in createLogicalFaceNumbering.
addFaceNumbers(geom, total, group, labels, children) ==
    IF ~group
    THEN [faceNumberLabels |-> labels, domeGroupNumberLabels |-> children]
    ELSE [faceNumberLabels |-> storeNumberLabels(labels, numberedBy(geom, total)),
          domeGroupNumberLabels |-> addChildren(children, numberedBy(geom, total))]

\* Save that stores the text as typed, untrimmed.
onSaveFaceTextUntrimmed(faceIndex, text, map, labels, geom, group) ==
    LET newMap == IF truthy(text) THEN MapSet(map, faceIndex, text)
                  ELSE MapDelete(map, faceIndex)
    IN  [faceData |-> newMap,
         faceLabels |-> updateFaceLabel(labels, faceIndex, text, geom, group),
         storedNotes |-> saveFaceDataToStorage(newMap)]

\* onSaveFaceText: the map, the labels and the stored item afterwards.
onSaveFaceText(faceIndex, text, map, labels, geom, group) ==
    LET trimmedText == trim(text)
        newMap == IF truthy(trimmedText) THEN MapSet(map, faceIndex, trimmedText)
                  ELSE MapDelete(map, faceIndex)
    IN  [faceData |-> newMap,
         faceLabels |-> updateFaceLabel(labels, faceIndex, trimmedText, geom, group),
         storedNotes |-> saveFaceDataToStorage(newMap)]

\* Clear that deletes the note and leaves the label of the facet in place.
onClearFaceTextKeepingLabel(faceIndex, map, labels, geom, group) ==
    LET newMap == MapDelete(map, faceIndex)
    IN  [faceData |-> newMap,
         faceLabels |-> labels,
         storedNotes |-> saveFaceDataToStorage(newMap)]

\* onClearFaceText: the map, the labels and the stored item afterwards.
onClearFaceText(faceIndex, map, labels, geom, group) ==
    LET newMap == MapDelete(map, faceIndex)
    IN  [faceData |-> newMap,
         faceLabels |-> updateFaceLabel(labels, faceIndex, <<>>, geom, group),
         storedNotes |-> saveFaceDataToStorage(newMap)]

\* What the notes item, the selector item and the seed file can hold when
\* the page loads.
InitialNotes == {NoItem, CorruptItem, JsonItem(<<(<<(<<"0">>), (<<"m">>)>>)>>)}

InitialMethods == {NoMethodItem, MethodItem(<<"2">>), MethodItem(<<"3">>),
                   MethodItem(<<"x">>)}

SeedFiles == {NoItem,
              JsonItem(<<(<<(<<"0">>), (<<"s">>)>>), (<<(<<"4", "0">>), (<<" ">>)>>)>>)}

\* The facets a double click is tried on.
PickFacets == {0, 40}

\* The options of the method selector.
SelectorOptions == {1, 2}

\* How many rebuild timers may be pending at once.
MaxPendingTimers == 2

\* History entries: how a facet last got or lost its text.
LoadedOp(text) == [kind |-> "load", text |-> text, inFlight |-> FALSE]

SeededOp(text) == [kind |-> "seed", text |-> text, inFlight |-> FALSE]

SavedOp(text, inFlight) == [kind |-> "save", text |-> text, inFlight |-> inFlight]

ClearedOp(inFlight) == [kind |-> "clear", text |-> <<>>, inFlight |-> inFlight]

Init ==
    /\ AppUnloaded
    /\ storedNotes \in InitialNotes
    /\ storedMethod \in InitialMethods
    /\ seedFile \in SeedFiles
    /\ OracleParked
    /\ NumberingParked

\* The module's top-level code up to the await of the seed fetch: the
\* selector is loaded, the dome built, the listeners installed, the stored
\* notes loaded and the fetch issued.
Boot ==
    /\ phase = "unloaded"
    /\ LET method == loadMethodFromStorage(storedMethod, currentMethod)
           loaded == loadFaceDataFromStorage(storedNotes, faceData)
       IN  /\ currentMethod' = method
           /\ geodesicData' = method
           /\ completeGeometry' = method
           /\ faceData' = loaded
           /\ lastOp' = [i \in DOMAIN loaded |-> LoadedOp(loaded[i])]
    /\ domeGroup' = TRUE
    /\ domeMesh' = TRUE
    /\ phase' = "fetching"
    /\ UNCHANGED <<storedNotes, storedMethod, faceLabels, pendingTimers, modalShown,
                   currentFaceIndex, textInput, seedFile>>
    /\ UNCHANGED <<faceNumberLabels, domeGroupNumberLabels, lastClick>>
    /\ UNCHANGED lastFrame
    /\ UNCHANGED <<oracleVars, numberingVars>>

\* The rest of startup with a failed fetch ending initializeApp: no label,
\* no number and no change listener follow.
SeedArrivesAborting ==
    /\ phase = "fetching"
    /\ IF seedFile.kind = "json"
       THEN /\ faceData' = loadInitialFaceData(seedFile, faceData)
            /\ faceLabels' = labelAll(loadInitialFaceData(seedFile, faceData), faceLabels,
                                      geometryOf(completeGeometry), domeGroup)
            /\ faceNumberLabels' = totalFacesOf(geodesicData)
            /\ domeGroupNumberLabels' = <<totalFacesOf(geodesicData)>>
            /\ phase' = "ready"
       ELSE /\ phase' = "stalled"
            /\ UNCHANGED <<faceData, faceLabels, faceNumberLabels, domeGroupNumberLabels>>
    /\ UNCHANGED <<storedNotes, storedMethod, currentMethod, geodesicData, domeGroup,
                   domeMesh, completeGeometry, pendingTimers, modalShown,
                   currentFaceIndex, textInput, seedFile, lastOp, lastClick, lastFrame>>
    /\ UNCHANGED <<oracleVars, numberingVars>>

\* The rest of initializeApp and startApp once the fetch has settled: the
\* seed is merged (or the failure caught), every note gets its label and
\* the selector gets its change listener.
SeedArrives ==
    /\ phase = "fetching"
    /\ LET merged == loadInitialFaceData(seedFile, faceData)
           installed == (DOMAIN merged) \ (DOMAIN faceData)
       IN  /\ faceData' = merged
           /\ faceLabels' = IF domeGroup
                            THEN labelAll(merged, faceLabels,
                                          geometryOf(completeGeometry), domeGroup)
                            ELSE faceLabels
           /\ lastOp' = [i \in (DOMAIN lastOp) \cup installed |->
                            IF i \in installed THEN SeededOp(merged[i]) ELSE lastOp[i]]
    /\ IF domeGroup
       THEN \E added \in {addFaceNumbers(geometryOf(completeGeometry),
                                          totalFacesOf(geodesicData), domeGroup,
                                          faceNumberLabels, domeGroupNumberLabels)} :
                /\ faceNumberLabels' = added.faceNumberLabels
                /\ domeGroupNumberLabels' = added.domeGroupNumberLabels
       ELSE UNCHANGED <<faceNumberLabels, domeGroupNumberLabels>>
    /\ phase' = "ready"
    /\ UNCHANGED <<storedNotes, storedMethod, currentMethod, geodesicData, domeGroup,
                   domeMesh, completeGeometry, pendingTimers, modalShown,
                   currentFaceIndex, textInput, seedFile>>
    /\ UNCHANGED lastClick
    /\ UNCHANGED lastFrame
    /\ UNCHANGED <<oracleVars, numberingVars>>

\* onDoubleClick with the ray hitting facet f of domeMesh, then showModal.
DoubleClick(f) ==
    /\ phase # "unloaded"
    /\ domeMesh
    /\ f < faceCount(geometryOf(completeGeometry))
    /\ currentFaceIndex' = f
    /\ textInput' = IF f \in DOMAIN faceData /\ truthy(faceData[f])
                    THEN faceData[f] ELSE <<>>
    /\ modalShown' = TRUE
    /\ UNCHANGED <<phase, storedNotes, storedMethod, currentMethod, faceData,
                   faceLabels, geodesicData, domeGroup, domeMesh, completeGeometry,
                   pendingTimers, seedFile, lastOp>>
    /\ lastClick' = "hit"
    /\ UNCHANGED <<faceNumberLabels, domeGroupNumberLabels>>
    /\ UNCHANGED lastFrame
    /\ UNCHANGED <<oracleVars, numberingVars>>

\* What a ray that opens no modal gives: no intersection, or an
\* intersection without a face or a numeric faceIndex.
MissKinds == {"none", "invalid"}

\* A miss that opens the modal on facet 0 all the same.
DoubleClickMissOpening(hit) ==
    /\ phase # "unloaded"
    /\ domeMesh
    /\ hit \in MissKinds
    /\ lastClick' = "miss"
    /\ modalShown' = TRUE
    /\ currentFaceIndex' = 0
    /\ UNCHANGED <<phase, storedNotes, storedMethod, currentMethod, faceData,
                   faceLabels, geodesicData, domeGroup, domeMesh, completeGeometry,
                   pendingTimers, textInput, seedFile,
                   faceNumberLabels, domeGroupNumberLabels, lastOp>>
    /\ UNCHANGED lastFrame
    /\ UNCHANGED <<oracleVars, numberingVars>>

\* onDoubleClick when the ray opens no modal: a message is logged, showModal
\* is not called.
DoubleClickMiss(hit) ==
    /\ phase # "unloaded"
    /\ domeMesh
    /\ hit \in MissKinds
    /\ lastClick' = "miss"
    /\ UNCHANGED <<phase, storedNotes, storedMethod, currentMethod, faceData,
                   faceLabels, geodesicData, domeGroup, domeMesh, completeGeometry,
                   pendingTimers, modalShown, currentFaceIndex, textInput, seedFile,
                   faceNumberLabels, domeGroupNumberLabels, lastOp>>
    /\ UNCHANGED lastFrame
    /\ UNCHANGED <<oracleVars, numberingVars>>

\* onDoubleClick without a dome mesh: raycaster.intersectObject(undefined)
\* reads a property of undefined and the handler ends with a TypeError.
DoubleClickFaults ==
    /\ phase # "unloaded"
    /\ ~domeMesh
    /\ lastClick' = "fault"
    /\ UNCHANGED <<phase, storedNotes, storedMethod, currentMethod, faceData,
                   faceLabels, geodesicData, domeGroup, domeMesh, completeGeometry,
                   pendingTimers, modalShown, currentFaceIndex, textInput, seedFile,
                   faceNumberLabels, domeGroupNumberLabels, lastOp, lastFrame>>
    /\ UNCHANGED <<oracleVars, numberingVars>>

\* The user edits the text area of the open modal.
TypeText(t) ==
    /\ modalShown
    /\ textInput' = t
    /\ UNCHANGED <<phase, storedNotes, storedMethod, currentMethod, faceData,
                   faceLabels, geodesicData, domeGroup, domeMesh, completeGeometry,
                   pendingTimers, modalShown, currentFaceIndex, seedFile, lastOp>>
    /\ UNCHANGED <<faceNumberLabels, domeGroupNumberLabels, lastClick>>
    /\ UNCHANGED lastFrame
    /\ UNCHANGED <<oracleVars, numberingVars>>

\* saveButton.onclick
SaveClick ==
    /\ modalShown
    /\ IF currentFaceIndex # Null
       THEN \E saved \in {onSaveFaceText(currentFaceIndex, textInput, faceData,
                                           faceLabels, geometryOf(completeGeometry),
                                           domeGroup)} :
                /\ faceData' = saved.faceData
                /\ faceLabels' = saved.faceLabels
                /\ storedNotes' = saved.storedNotes
                /\ lastOp' = MapSet(lastOp, currentFaceIndex,
                                    SavedOp(textInput, phase = "fetching"))
       ELSE UNCHANGED <<faceData, faceLabels, storedNotes, lastOp>>
    /\ modalShown' = FALSE
    /\ UNCHANGED <<phase, storedMethod, currentMethod, geodesicData, domeGroup,
                   domeMesh, completeGeometry, pendingTimers, currentFaceIndex,
                   textInput, seedFile>>
    /\ lastClick' = "save"
    /\ UNCHANGED <<faceNumberLabels, domeGroupNumberLabels>>
    /\ UNCHANGED lastFrame
    /\ UNCHANGED <<oracleVars, numberingVars>>

\* clearButton.onclick
ClearClick ==
    /\ modalShown
    /\ IF currentFaceIndex # Null
       THEN \E cleared \in {onClearFaceText(currentFaceIndex, faceData, faceLabels,
                                              geometryOf(completeGeometry), domeGroup)} :
                /\ faceData' = cleared.faceData
                /\ faceLabels' = cleared.faceLabels
                /\ storedNotes' = cleared.storedNotes
                /\ lastOp' = MapSet(lastOp, currentFaceIndex,
                                    ClearedOp(phase = "fetching"))
                /\ textInput' = <<>>
       ELSE UNCHANGED <<faceData, faceLabels, storedNotes, lastOp, textInput>>
    /\ UNCHANGED <<phase, storedMethod, currentMethod, geodesicData, domeGroup,
                   domeMesh, completeGeometry, pendingTimers, modalShown,
                   currentFaceIndex, seedFile>>
    /\ lastClick' = "clear"
    /\ UNCHANGED <<faceNumberLabels, domeGroupNumberLabels>>
    /\ UNCHANGED lastFrame
    /\ UNCHANGED <<oracleVars, numberingVars>>

\* A close button that commits the typed text before hiding the modal.
CloseClickSaving ==
    /\ modalShown
    /\ modalShown' = FALSE
    /\ currentFaceIndex' = Null
    /\ IF currentFaceIndex # Null
       THEN \E saved \in {onSaveFaceText(currentFaceIndex, textInput, faceData,
                                           faceLabels, geometryOf(completeGeometry),
                                           domeGroup)} :
                /\ faceData' = saved.faceData
                /\ faceLabels' = saved.faceLabels
                /\ storedNotes' = saved.storedNotes
       ELSE UNCHANGED <<faceData, faceLabels, storedNotes>>
    /\ UNCHANGED <<phase, storedMethod, currentMethod, geodesicData, domeGroup,
                   domeMesh, completeGeometry, pendingTimers, textInput, seedFile,
                   lastOp>>
    /\ lastClick' = "close"
    /\ UNCHANGED <<faceNumberLabels, domeGroupNumberLabels>>
    /\ UNCHANGED lastFrame
    /\ UNCHANGED <<oracleVars, numberingVars>>

\* closeButton.onclick
CloseClick ==
    /\ modalShown
    /\ modalShown' = FALSE
    /\ currentFaceIndex' = Null
    /\ UNCHANGED <<phase, storedNotes, storedMethod, currentMethod, faceData,
                   faceLabels, geodesicData, domeGroup, domeMesh, completeGeometry,
                   pendingTimers, textInput, seedFile, lastOp>>
    /\ lastClick' = "close"
    /\ UNCHANGED <<faceNumberLabels, domeGroupNumberLabels>>
    /\ UNCHANGED lastFrame
    /\ UNCHANGED <<oracleVars, numberingVars>>

\* window.onclick with the modal backdrop as target
OutsideClick ==
    /\ modalShown
    /\ modalShown' = FALSE
    /\ currentFaceIndex' = Null
    /\ UNCHANGED <<phase, storedNotes, storedMethod, currentMethod, faceData,
                   faceLabels, geodesicData, domeGroup, domeMesh, completeGeometry,
                   pendingTimers, textInput, seedFile, lastOp>>
    /\ lastClick' = "outside"
    /\ UNCHANGED <<faceNumberLabels, domeGroupNumberLabels>>
    /\ UNCHANGED lastFrame
    /\ UNCHANGED <<oracleVars, numberingVars>>

\* The change listener with a rebuild that also empties the notes.
SelectMethodClearingNotes(newMethod) ==
    /\ phase = "ready"
    /\ newMethod # currentMethod
    /\ pendingTimers < MaxPendingTimers
    /\ currentMethod' = newMethod
    /\ storedMethod' = saveMethodToStorage(newMethod)
    /\ faceLabels' = EmptyMap
    /\ faceData' = EmptyMap
    /\ geodesicData' = newMethod
    /\ completeGeometry' = newMethod
    /\ domeGroup' = TRUE
    /\ domeMesh' = TRUE
    /\ pendingTimers' = pendingTimers + 1
    /\ faceNumberLabels' = 0
    /\ domeGroupNumberLabels' = <<>>
    /\ UNCHANGED <<phase, storedNotes, modalShown, currentFaceIndex, textInput,
                   seedFile, lastOp, lastClick>>
    /\ UNCHANGED lastFrame
    /\ UNCHANGED <<oracleVars, numberingVars>>

\* The selector's change listener: the method is set and saved, then
\* rebuildDome drops the labels, rebuilds the dome and arms its timer.
SelectMethod(newMethod) ==
    /\ phase = "ready"
    /\ newMethod # currentMethod
    /\ pendingTimers < MaxPendingTimers
    /\ currentMethod' = newMethod
    /\ storedMethod' = saveMethodToStorage(newMethod)
    /\ faceLabels' = EmptyMap
    /\ geodesicData' = newMethod
    /\ completeGeometry' = newMethod
    /\ domeGroup' = TRUE
    /\ domeMesh' = TRUE
    /\ pendingTimers' = pendingTimers + 1
    /\ UNCHANGED <<phase, storedNotes, faceData, modalShown, currentFaceIndex,
                   textInput, seedFile, lastOp>>
    /\ faceNumberLabels' = 0
    /\ domeGroupNumberLabels' = <<>>
    /\ UNCHANGED lastClick
    /\ UNCHANGED lastFrame
    /\ UNCHANGED <<oracleVars, numberingVars>>

\* The points of rebuildDome at which a call may throw, each caught by its
\* catch block: in create2VGeodesicDome, in buildDomeVisuals once domeGroup
\* is made, once completeGeometry is set, and once domeMesh is set.
RebuildFailures == {"create", "layers", "raycast", "wireframe"}

\* The selector's change listener with rebuildDome throwing at a point: the
\* method is set and saved, the old dome, labels and numbers are dropped,
\* the references set before the throw stay, the catch block logs and no
\* timer is armed.
SelectMethodFails(newMethod, at) ==
    /\ phase = "ready"
    /\ newMethod # currentMethod
    /\ at \in RebuildFailures
    /\ currentMethod' = newMethod
    /\ storedMethod' = saveMethodToStorage(newMethod)
    /\ faceLabels' = EmptyMap
    /\ faceNumberLabels' = 0
    /\ domeGroupNumberLabels' = <<>>
    /\ geodesicData' = IF at = "create" THEN geodesicData ELSE newMethod
    /\ domeGroup' = (at # "create")
    /\ completeGeometry' = IF at \in {"raycast", "wireframe"} THEN newMethod ELSE 0
    /\ domeMesh' = (at = "wireframe")
    /\ UNCHANGED <<phase, storedNotes, faceData, pendingTimers, modalShown,
                   currentFaceIndex, textInput, seedFile, lastOp, lastClick, lastFrame>>
    /\ UNCHANGED <<oracleVars, numberingVars>>

\* The setTimeout callback of rebuildDome.
TimerFires ==
    /\ pendingTimers > 0
    /\ pendingTimers' = pendingTimers - 1
    /\ faceLabels' = IF domeGroup /\ completeGeometry # 0
                     THEN labelAll(faceData, faceLabels, geometryOf(completeGeometry),
                                   domeGroup)
                     ELSE faceLabels
    /\ IF domeGroup /\ completeGeometry # 0
       THEN \E added \in {addFaceNumbers(geometryOf(completeGeometry),
                                          totalFacesOf(geodesicData), domeGroup,
                                          faceNumberLabels, domeGroupNumberLabels)} :
                /\ faceNumberLabels' = added.faceNumberLabels
                /\ domeGroupNumberLabels' = added.domeGroupNumberLabels
       ELSE UNCHANGED <<faceNumberLabels, domeGroupNumberLabels>>
    /\ UNCHANGED <<phase, storedNotes, storedMethod, currentMethod, faceData,
                   geodesicData, domeGroup, domeMesh, completeGeometry, modalShown,
                   currentFaceIndex, textInput, seedFile, lastOp>>
    /\ UNCHANGED lastClick
    /\ UNCHANGED lastFrame
    /\ UNCHANGED <<oracleVars, numberingVars>>

\* updateLabelVisibility: nothing is done without domeGroup or
\* completeGeometry, else every label's visibility is set.
updateLabelVisibility(group, cg) ==
    IF ~group \/ cg = 0 THEN "skipped" ELSE "updated"

\* animate, a frame of the render loop the module's top-level code starts.
Frame ==
    /\ phase # "unloaded"
    /\ lastFrame' = updateLabelVisibility(domeGroup, completeGeometry)
    /\ UNCHANGED <<phase, storedNotes, storedMethod, currentMethod, faceData,
                   faceLabels, geodesicData, domeGroup, domeMesh, completeGeometry,
                   pendingTimers, modalShown, currentFaceIndex, textInput, seedFile,
                   faceNumberLabels, domeGroupNumberLabels, lastOp, lastClick>>
    /\ UNCHANGED <<oracleVars, numberingVars>>

\* The page is reloaded: memory starts afresh, localStorage and the seed
\* file stay.
Restart ==
    /\ phase # "unloaded"
    /\ phase' = "unloaded"
    /\ currentMethod' = 1
    /\ faceData' = EmptyMap
    /\ faceLabels' = EmptyMap
    /\ geodesicData' = 0
    /\ domeGroup' = FALSE
    /\ domeMesh' = FALSE
    /\ completeGeometry' = 0
    /\ pendingTimers' = 0
    /\ modalShown' = FALSE
    /\ currentFaceIndex' = Null
    /\ textInput' = <<>>
    /\ lastOp' = EmptyMap
    /\ UNCHANGED <<storedNotes, storedMethod, seedFile>>
    /\ faceNumberLabels' = 0
    /\ domeGroupNumberLabels' = <<>>
    /\ lastClick' = "none"
    /\ lastFrame' = "none"
    /\ UNCHANGED <<oracleVars, numberingVars>>

Next ==
    \/ Boot
    \/ SeedArrives
    \/ \E f \in PickFacets : DoubleClick(f)
    \/ \E hit \in MissKinds : DoubleClickMiss(hit)
    \/ \E t \in TypedTexts : TypeText(t)
    \/ SaveClick
    \/ ClearClick
    \/ CloseClick
    \/ OutsideClick
    \/ \E newMethod \in SelectorOptions : SelectMethod(newMethod)
    \/ TimerFires
    \/ Restart

Spec == Init /\ [][Next]_vars

\* The dome's life cycle with the render loop running and with rebuilds that
\* may throw: startup, frames, picking, the modal's buttons, selector changes.
RebuildNext ==
    \/ Boot
    \/ SeedArrives
    \/ Frame
    \/ \E f \in PickFacets : DoubleClick(f)
    \/ \E hit \in MissKinds : DoubleClickMiss(hit)
    \/ DoubleClickFaults
    \/ SaveClick
    \/ ClearClick
    \/ CloseClick
    \/ \E newMethod \in SelectorOptions : SelectMethod(newMethod)
    \/ \E newMethod \in SelectorOptions, at \in RebuildFailures :
           SelectMethodFails(newMethod, at)
    \/ TimerFires
    \/ Restart

SpecRebuild == Init /\ [][RebuildNext]_vars

\* C1: the text of a facet is decided by the last action on it: the trimmed
\* text of a Save whose trimmed text is not empty, nothing after a Clear or
\* a Save of an empty or blank text, and, for a facet no Save or Clear has
\* touched, the text it was loaded or seeded with; so an action on another
\* facet never changes it.
C1_LastActionDecides ==
    /\ DOMAIN faceData \subseteq DOMAIN lastOp
    /\ \A i \in DOMAIN lastOp :
          IF lastOp[i].kind = "save"
          THEN IF trim(lastOp[i].text) # <<>>
               THEN i \in DOMAIN faceData /\ faceData[i] = trim(lastOp[i].text)
               ELSE i \notin DOMAIN faceData
          ELSE IF lastOp[i].kind = "clear"
          THEN i \notin DOMAIN faceData
          ELSE i \in DOMAIN faceData /\ faceData[i] = lastOp[i].text

\* A facet holds the trimmed text of a Save typed with blanks around it
\* while another facet has been saved or cleared as well.
C1_SavedThenOtherFacetActed ==
    \E i, j \in DOMAIN lastOp :
        /\ i # j
        /\ lastOp[i].kind = "save"
        /\ trim(lastOp[i].text) # <<>>
        /\ trim(lastOp[i].text) # lastOp[i].text
        /\ lastOp[j].kind \in {"save", "clear"}

\* C2: no entry of faceData holds an empty or blank text, in any state,
\* also right after the stored notes are loaded and the seed is merged.
C2_NoBlankText ==
    \A i \in DOMAIN faceData : trim(faceData[i]) # <<>>

\* The seed file has an entry for the facet.
SeedHas(i) ==
    /\ seedFile.kind = "json"
    /\ \E e \in 1..Len(seedFile.entries) : parseInt(seedFile.entries[e][1]) = i

\* The text of the seed file's first entry for the facet.
SeedText(i) ==
    LET first == CHOOSE e \in 1..Len(seedFile.entries) :
                    /\ parseInt(seedFile.entries[e][1]) = i
                    /\ \A d \in 1..(e - 1) : parseInt(seedFile.entries[d][1]) # i
    IN  seedFile.entries[first][2]

\* C3: the seed merge keeps every entry the map holds at that moment and
\* installs a seed text only for a facet without an entry, whatever Save and
\* Clear actions ran while the fetch was in flight.
C3_SeedKeepsExistingEntries ==
    [][(phase = "fetching" /\ phase' = "ready") =>
          /\ \A i \in DOMAIN faceData :
                i \in DOMAIN faceData' /\ faceData'[i] = faceData[i]
          /\ \A i \in (DOMAIN faceData') \ (DOMAIN faceData) :
                SeedHas(i) /\ faceData'[i] = SeedText(i)]_vars

\* After the merge a facet saved while the fetch was in flight holds the
\* saved text although the seed has another text for it, and the seed was
\* installed on another facet.
C3_SavedInFlightKept ==
    /\ phase = "ready"
    /\ \E i, j \in DOMAIN faceData :
          /\ lastOp[i].kind = "save"
          /\ lastOp[i].inFlight
          /\ SeedHas(i)
          /\ faceData[i] # SeedText(i)
          /\ lastOp[j].kind = "seed"

\* The stored JSON holds exactly the entries of the map.
StoredEqualsMap(item, map) ==
    /\ item.kind = "json"
    /\ Len(item.entries) = Cardinality(DOMAIN map)
    /\ \A e \in 1..Len(item.entries) :
          /\ parseInt(item.entries[e][1]) \in DOMAIN map
          /\ map[parseInt(item.entries[e][1])] = item.entries[e][2]

\* C4: after every Save or Clear the stored JSON equals faceData, and the
\* load of a restart gives exactly the map that was stored.
C4_StoredNotesMatchMap ==
    [][/\ ((SaveClick \/ ClearClick) /\ currentFaceIndex # Null) =>
             /\ StoredEqualsMap(storedNotes', faceData')
             /\ loadFaceDataFromStorage(storedNotes', EmptyMap) = faceData'
       /\ (phase = "unloaded" /\ phase' = "fetching" /\ storedNotes.kind = "json") =>
             StoredEqualsMap(storedNotes, faceData')]_vars

\* After a restart the map holds, loaded from storage, the trimmed text of
\* a Save of the session before.
C4_SavedTextLoadedAfterRestart ==
    /\ phase = "fetching"
    /\ \E i \in DOMAIN lastOp : lastOp[i] = LoadedOp(<<"b">>)
    /\ StoredEqualsMap(storedNotes, faceData)

\* C5: once the selector is loaded currentMethod is 1 or 2: the stored
\* value where it parses to 1 or 2, else the default 1.
C5_MethodLoadedValid ==
    phase # "unloaded" =>
        /\ currentMethod \in {1, 2}
        /\ IF storedMethod.present /\ parseInt(storedMethod.text) \in {1, 2}
           THEN currentMethod = parseInt(storedMethod.text)
           ELSE currentMethod = 1

\* The page has loaded with an out-of-range selector stored.
C5_OutOfRangeIgnored ==
    /\ phase = "fetching"
    /\ storedMethod = MethodItem(<<"3">>)
    /\ currentMethod = 1

\* ------------------------------------------------------------------------
\* The facet oracle under query: a geometry, a facet index, a camera
\* ------------------------------------------------------------------------

OracleKinds == {"ring", "m1", "m2"}

MeshOfKind(kind) ==
    IF kind = "ring" THEN RingMesh
    ELSE IF kind = "m2" THEN Method2Mesh ELSE Method1Mesh

\* Camera positions: the initial one (0, 1.5, 4), on the ground plane along
\* x, straight above, behind the dome, and low over the ground.
Cameras ==
    { Vec(0, 1500, 4000), Vec(4000, 0, 0), Vec(0, 4000, 0),
      Vec(-3000, 1000, -2000), Vec(2000, 200, 3000) }

\* The geometry handed to the oracle: completeGeometry (main.ts: geometry),
\* undefined when the dome is not built.
OracleGeometry ==
    IF oDomeGroup THEN BufferGeometry(MeshOfKind(oKind), oIndexed) ELSE NoGeometry

OracleInit ==
    /\ oKind \in OracleKinds
    /\ oIndexed \in BOOLEAN
    /\ oDomeGroup \in BOOLEAN
    /\ oFace \in 0..(Len(MeshOfKind(oKind).faces) - 1)
    /\ oCamera \in Cameras
    /\ oPc = "idle"
    /\ oResult = NullFace
    /\ oVisible = FALSE
    /\ AppParked
    /\ NumberingParked

\* A caller (updateFaceLabel, addFaceNumbers) asks for facet oFace.
OracleQuery ==
    /\ oPc = "idle"
    /\ oResult' = getFaceCentroidAndNormal(OracleGeometry, oFace)
    /\ oPc' = "queried"
    /\ UNCHANGED <<oKind, oIndexed, oDomeGroup, oFace, oCamera, oVisible>>
    /\ UNCHANGED <<appVars, numberingVars>>

\* updateLabelVisibility for the overlay of facet oFace: it returns at once
\* without the dome, else sets label.visible from isFaceVisible.
OracleFrame ==
    /\ oPc = "idle"
    /\ IF ~oDomeGroup \/ ~OracleGeometry.defined
       THEN /\ oPc' = "skipped"
            /\ oVisible' = oVisible
       ELSE /\ oPc' = "framed"
            /\ oVisible' = isFaceVisible(OracleGeometry, oFace, oCamera, oDomeGroup)
    /\ UNCHANGED <<oKind, oIndexed, oDomeGroup, oFace, oCamera, oResult>>
    /\ UNCHANGED <<appVars, numberingVars>>

\* A strategy switch rebuilds the dome with the other method; the facet
\* index an annotation or overlay is kept under stays what it was.
OracleSwitch ==
    /\ oPc # "idle"
    /\ oKind \in {"m1", "m2"}
    /\ oKind' = IF oKind = "m1" THEN "m2" ELSE "m1"
    /\ oIndexed' = TRUE
    /\ oDomeGroup' = TRUE
    /\ oPc' = "idle"
    /\ oResult' = NullFace
    /\ oVisible' = FALSE
    /\ UNCHANGED <<oFace, oCamera>>
    /\ UNCHANGED <<appVars, numberingVars>>

OracleNext == OracleQuery \/ OracleFrame \/ OracleSwitch

SpecOracle == OracleInit /\ [][OracleNext]_vars

\* The facet range of the geometry under query.
OracleInRange == oFace \in 0..(Len(MeshOfKind(oKind).faces) - 1)

\* C6: the oracle fails (returns no centroid and normal) whenever the facet
\* index is outside the facet range of the mesh or the geometry is not
\* indexed; a stale index after a strategy switch gives the new mesh's facet
\* or a failure, never a result made from missing vertex data.
C6_OracleFailsOutsideRange ==
    (oPc = "queried" /\ (~OracleInRange \/ ~oIndexed)) => ~oResult.ok

\* The centre of the dome, the origin.
domeCenter == Zero3

\* C7: for every facet of every mesh of each construction strategy the
\* normal the oracle returns satisfies dot(normal, centroid - domeCenter) > 0.
C7_NormalsPointOutward ==
    (oPc = "queried" /\ oResult.ok /\ OracleInRange)
        => dot(oResult.normal, subVectors(oResult.centroid, domeCenter)) > 0

\* The dot product of the facet's world normal with the unit vector from
\* its centroid to the camera, for a facet the oracle has a result for.
FacetCameraDot ==
    LET face == getFaceCentroidAndNormal(OracleGeometry, oFace)
    IN  dot(normalize(face.normal), normalize(subVectors(oCamera, face.centroid)))

OracleHasFacet ==
    LET face == getFaceCentroidAndNormal(OracleGeometry, oFace)
    IN  face.ok /\ ~face.nan

\* C8: isFaceVisible is true exactly when the dot product of the facet's
\* world normal with the unit vector towards the camera is strictly greater
\* than 0.1; a facet seen edge-on (dot = 0) is not visible.
C8_VisibleIffDotAboveThreshold ==
    oPc = "framed" =>
        /\ oVisible <=> (OracleHasFacet /\ 10 * FacetCameraDot > Scale)
        /\ (OracleHasFacet /\ FacetCameraDot = 0) => ~oVisible

\* A frame has run for a facet whose normal is perpendicular to the camera
\* direction.
C8_EdgeOnFacetFramed ==
    oPc = "framed" /\ OracleInRange /\ OracleHasFacet /\ FacetCameraDot = 0

\* ------------------------------------------------------------------------
\* createLogicalFaceNumbering, loop by loop, on the mesh of either method
\* ------------------------------------------------------------------------

NumberingGeometry == BufferGeometry(MeshOfMethod(nMethod), TRUE)

\* const totalFaces = geodesicData.faces.length
totalFaces == Len(MeshOfMethod(nMethod).faces)

NumberingInit ==
    /\ nMethod \in {1, 2}
    /\ nPc = "start"
    /\ nFaceHeights = <<>>
    /\ nNext = 0
    /\ nLevels = <<>>
    /\ nNumbering = <<>>
    /\ AppParked
    /\ OracleParked

\* The centroid loop and faceHeights.sort by height, highest first.
NumberingCollect ==
    /\ nPc = "start"
    /\ nFaceHeights' = StableSort(collectFaceHeights(NumberingGeometry, totalFaces),
                                  higherFirst)
    /\ nNext' = 1
    /\ nPc' = "grouping"
    /\ UNCHANGED <<nMethod, nLevels, nNumbering>>
    /\ UNCHANGED <<appVars, oracleVars>>

\* One iteration of faceHeights.forEach.
NumberingGroupStep ==
    /\ nPc = "grouping"
    /\ nNext <= Len(nFaceHeights)
    /\ nLevels' = addToLevels(nLevels, nFaceHeights[nNext])
    /\ nNext' = nNext + 1
    /\ UNCHANGED <<nMethod, nPc, nFaceHeights, nNumbering>>
    /\ UNCHANGED <<appVars, oracleVars>>

\* The sort of every level by angle, after the last face is grouped.
NumberingSortLevels ==
    /\ nPc = "grouping"
    /\ nNext > Len(nFaceHeights)
    /\ nLevels' = sortLevelsByAngle(nLevels)
    /\ nPc' = "sorted"
    /\ UNCHANGED <<nMethod, nFaceHeights, nNext, nNumbering>>
    /\ UNCHANGED <<appVars, oracleVars>>

\* The numbering loop; the function returns logicalNumbering.
NumberingAssign ==
    /\ nPc = "sorted"
    /\ nNumbering' = assignNumbers(nLevels, totalFaces)
    /\ nPc' = "done"
    /\ UNCHANGED <<nMethod, nFaceHeights, nNext, nLevels>>
    /\ UNCHANGED <<appVars, oracleVars>>

NumberingNext ==
    NumberingCollect \/ NumberingGroupStep \/ NumberingSortLevels \/ NumberingAssign

SpecNumbering == NumberingInit /\ [][NumberingNext]_vars

\* The facets of the mesh being numbered.
NumberedFacets == 0..(totalFaces - 1)

\* The centroid of a facet, from the oracle.
CentroidOf(f) == getFaceCentroidAndNormal(NumberingGeometry, f).centroid

\* The level a facet was put in, 0 when in none.
LevelOf(f) ==
    IF \E l \in 1..Len(nLevels) : \E i \in 1..Len(nLevels[l]) : nLevels[l][i].index = f
    THEN CHOOSE l \in 1..Len(nLevels) :
            \E i \in 1..Len(nLevels[l]) : nLevels[l][i].index = f
    ELSE 0

\* Math.atan2(z, x) of the first centroid is less than that of the second.
AngleLess(c, d) ==
    \/ angleSector(c) < angleSector(d)
    \/ /\ angleSector(c) = angleSector(d)
       /\ angleSector(c) \in {0, 2}
       /\ c.x * d.z - c.z * d.x > 0

\* C9: the N facets get the numbers 1..N, each once, in (level, angle)
\* order: a facet of a higher level has a smaller number than any facet of a
\* lower level, within a level numbers increase with atan2(z, x), and the
\* highest facet lies in the level that holds number 1.
C9_NumberingOrder ==
    nPc = "done" =>
        /\ DOMAIN nNumbering = NumberedFacets
        /\ {nNumbering[f] : f \in NumberedFacets} = 1..totalFaces
        /\ \A f, g \in NumberedFacets :
              /\ LevelOf(f) > 0
              /\ LevelOf(f) < LevelOf(g) =>
                    /\ CentroidOf(f).y > CentroidOf(g).y
                    /\ nNumbering[f] < nNumbering[g]
              /\ (LevelOf(f) = LevelOf(g) /\ AngleLess(CentroidOf(f), CentroidOf(g)))
                    => nNumbering[f] < nNumbering[g]
              /\ ((\A h \in NumberedFacets : CentroidOf(h).y <= CentroidOf(f).y)
                    /\ nNumbering[g] = 1) => LevelOf(f) = LevelOf(g)

\* The numbering is done, with several levels and a level of several angles.
C9_SeveralLevelsNumbered ==
    /\ nPc = "done"
    /\ Len(nLevels) > 2
    /\ \E f, g \in NumberedFacets :
          LevelOf(f) = LevelOf(g) /\ AngleLess(CentroidOf(f), CentroidOf(g))

\* C10 as claimed: any two facets whose centroid heights are within 0.2 of
\* each other are placed in the same height level.
C10_WithinToleranceSameLevel ==
    nPc \in {"sorted", "done"} =>
        \A f, g \in NumberedFacets :
            Abs(CentroidOf(f).y - CentroidOf(g).y) < heightTolerance
                => LevelOf(f) = LevelOf(g)

\* The height of the highest facet of a level.
LevelTop(l) ==
    CHOOSE y \in {nLevels[l][i].centroid.y : i \in 1..Len(nLevels[l])} :
        \A i \in 1..Len(nLevels[l]) : nLevels[l][i].centroid.y <= y

\* C10 amended: a facet whose centroid height is no higher than the highest
\* facet of a level and less than 0.2 below it is placed in that level.
C10_WithinToleranceOfLevelTop ==
    nPc \in {"sorted", "done"} =>
        \A l \in 1..Len(nLevels) : \A g \in NumberedFacets :
            (CentroidOf(g).y <= LevelTop(l)
             /\ LevelTop(l) - CentroidOf(g).y < heightTolerance)
                => LevelOf(g) = l

\* The levels are final and one of them holds facets of different heights.
C10_LevelSpansHeights ==
    /\ nPc \in {"sorted", "done"}
    /\ \E f, g \in NumberedFacets :
          LevelOf(f) = LevelOf(g) /\ CentroidOf(f).y # CentroidOf(g).y

\* Math.atan2(z, x) is the same for both centroids.
AngleTie(c, d) == ~AngleLess(c, d) /\ ~AngleLess(d, c)

ReferencedPositions(mesh) ==
    UNION {{mesh.vertices[mesh.faces[f][j] + 1] :
                j \in {k \in 1..3 : mesh.faces[f][k] \in 0..(Len(mesh.vertices) - 1)}} :
           f \in 1..Len(mesh.faces)}

\* No two entries of the vertex list hold the same position.
DistinctVertices(mesh) ==
    \A i, j \in 1..Len(mesh.vertices) :
        mesh.vertices[i] = mesh.vertices[j] => i = j

\* C12: for every mesh produced by any construction strategy no two entries
\* of the vertex list have the same position, and the number of distinct
\* positions referenced by facets equals the vertex count.
C12_VerticesDeduplicated ==
    oDomeGroup =>
        /\ DistinctVertices(MeshOfKind(oKind))
        /\ Cardinality(ReferencedPositions(MeshOfKind(oKind)))
              = Len(MeshOfKind(oKind).vertices)

\* Every facet is a triple of indices into the vertex list of the mesh.
FacetsInRange(mesh) ==
    \A f \in 1..Len(mesh.faces) :
        /\ Len(mesh.faces[f]) = 3
        /\ \A j \in 1..3 : mesh.faces[f][j] \in 0..(Len(mesh.vertices) - 1)

\* C13: for every mesh produced by any construction strategy, every facet
\* is a triple of vertex indices each lying in 0..vertexCount-1 of that
\* same mesh.
C13_FacetIndicesInRange == oDomeGroup => FacetsInRange(MeshOfKind(oKind))

\* The facet under query is the last one of a built mesh and refers to the
\* last entry of the vertex list.
C13_LastVertexReferenced ==
    /\ oDomeGroup
    /\ oPc = "queried"
    /\ oFace = Len(MeshOfKind(oKind).faces) - 1
    /\ \E f \in 1..Len(MeshOfKind(oKind).faces) : \E j \in 1..3 :
          MeshOfKind(oKind).faces[f][j] = Len(MeshOfKind(oKind).vertices) - 1

\* C14: a rebuild leaves the annotation store untouched: neither the change
\* listener with its rebuildDome nor the deferred callback changes the
\* annotation map or the persisted notes, so a note stored under facet index
\* i before a strategy switch is stored under i, with the same text, after.
C14_RebuildKeepsNotes ==
    [][((\E newMethod \in SelectorOptions : SelectMethod(newMethod)) \/ TimerFires)
          => (faceData' = faceData /\ storedNotes' = storedNotes)]_vars

\* A switch has been made, its callback is pending, and a note is stored
\* under an index the mesh now built has no facet for.
C14_NoteBeyondRebuiltMesh ==
    /\ phase = "ready"
    /\ pendingTimers > 0
    /\ \E i \in DOMAIN faceData :
          /\ i >= totalFacesOf(geodesicData)
          /\ trim(faceData[i]) # <<>>

\* C15: from Editing(f), Save sets the note of f to the trimmed input (or
\* removes it when nothing remains), rebuilds the label of f (a label exists
\* afterwards only if non-empty text remains), closes the modal and returns
\* the controller to Idle: no facet remains selected once the modal is hidden.
C15_SaveReturnsToIdle ==
    [][(SaveClick /\ currentFaceIndex # Null) =>
          /\ faceData' = IF trim(textInput) # <<>>
                         THEN MapSet(faceData, currentFaceIndex, trim(textInput))
                         ELSE MapDelete(faceData, currentFaceIndex)
          /\ (currentFaceIndex \in DOMAIN faceLabels') <=> (trim(textInput) # <<>>)
          /\ ~modalShown'
          /\ currentFaceIndex' = Null]_vars

\* C16: from Editing(f), Clear deletes the note of f, removes its label,
\* empties the input field and leaves the modal open on f; a Save that
\* follows stores its text under that same facet f and no other.
C16_ClearKeepsEditing ==
    [][/\ (ClearClick /\ currentFaceIndex # Null) =>
             /\ faceData' = MapDelete(faceData, currentFaceIndex)
             /\ faceLabels' = MapDelete(faceLabels, currentFaceIndex)
             /\ textInput' = <<>>
             /\ modalShown'
             /\ currentFaceIndex' = currentFaceIndex
       /\ (SaveClick /\ lastClick = "clear" /\ trim(textInput) # <<>>) =>
             /\ currentFaceIndex # Null
             /\ faceData' = MapSet(faceData, currentFaceIndex, trim(textInput))]_vars

\* Clear has just run on facet 0, whose stored note it removed, while the
\* note of another facet stays; the modal is open on facet 0 with an empty
\* field.
C16_ClearedStillEditing ==
    /\ lastClick = "clear"
    /\ modalShown
    /\ currentFaceIndex = 0
    /\ textInput = <<>>
    /\ 0 \in DOMAIN lastOp
    /\ lastOp[0].kind = "clear"
    /\ 0 \notin DOMAIN faceData
    /\ 0 \notin DOMAIN faceLabels
    /\ 40 \in DOMAIN faceData
    /\ storedNotes = saveFaceDataToStorage(faceData)

\* C17: closing the modal, by the close control or by a click on the area
\* outside the dialog, discards the uncommitted input: the annotation map,
\* the persisted notes and the labels are unchanged, the modal is hidden and
\* no facet remains current.
C17_CloseDiscardsInput ==
    [][(CloseClick \/ OutsideClick) =>
          /\ faceData' = faceData
          /\ storedNotes' = storedNotes
          /\ faceLabels' = faceLabels
          /\ ~modalShown'
          /\ currentFaceIndex' = Null]_vars

\* The modal was closed with a typed text in its field that no facet holds.
C17_TypedTextDiscarded ==
    /\ lastClick \in {"close", "outside"}
    /\ ~modalShown
    /\ currentFaceIndex = Null
    /\ textInput = <<"a">>
    /\ \A i \in DOMAIN faceData : faceData[i] # <<"a">>

\* C18: a double-click whose ray misses the mesh, or whose intersection has
\* no valid triangle index, changes nothing: no modal is opened, the current
\* facet, the input field, the annotation map, the persisted notes and the
\* overlays are all unchanged.
C18_MissChangesNothing ==
    [][(\E hit \in MissKinds : DoubleClickMiss(hit)) =>
          /\ modalShown' = modalShown
          /\ currentFaceIndex' = currentFaceIndex
          /\ textInput' = textInput
          /\ faceData' = faceData
          /\ storedNotes' = storedNotes
          /\ faceLabels' = faceLabels
          /\ faceNumberLabels' = faceNumberLabels
          /\ domeGroupNumberLabels' = domeGroupNumberLabels]_vars

\* A double-click has just missed, with notes stored and no modal open.
C18_MissedWithNotesStored ==
    /\ lastClick = "miss"
    /\ ~modalShown
    /\ currentFaceIndex = Null
    /\ faceData # EmptyMap
    /\ faceLabels # EmptyMap

\* C19: at any time, also while the seed fetch is in flight at startup and
\* between a rebuild and its deferred overlay recreation, the facets that
\* have a label overlay are exactly the facets that have a non-empty
\* annotation (the label map holds one overlay per facet).
C19_LabelsMatchNotes ==
    DOMAIN faceLabels = {i \in DOMAIN faceData : trim(faceData[i]) # <<>>}

\* C20: after any sequence of strategy-selector changes, also two changes
\* made before the first deferred callback has run, once all deferred
\* callbacks have run the dome group holds exactly one numbering overlay for
\* each facet of the current mesh, the array faceNumberLabels holds those,
\* there is one label overlay for each stored non-empty annotation, and no
\* overlay of an earlier rebuild remains.
C20_OneOverlayPerFacetAfterRebuilds ==
    (phase = "ready" /\ pendingTimers = 0) =>
        /\ domeGroupNumberLabels = <<totalFacesOf(geodesicData)>>
        /\ faceNumberLabels = totalFacesOf(geodesicData)
        /\ DOMAIN faceLabels = {i \in DOMAIN faceData : trim(faceData[i]) # <<>>}
        /\ \A i \in DOMAIN faceLabels : faceLabels[i].inGroup

\* C21: no handler observes a partially rebuilt dome: in every state a
\* handler can run in, domeGroup, domeMesh and completeGeometry are all set
\* (the geometry being that of the mesh geodesicData holds) or all unset,
\* and without a dome there is no label and no numbering overlay, also
\* after a rebuild that threw part-way.
C21_NoPartialDome ==
    phase # "unloaded" =>
        /\ \/ domeGroup /\ domeMesh /\ completeGeometry # 0
              /\ completeGeometry = geodesicData
           \/ ~domeGroup /\ ~domeMesh /\ completeGeometry = 0
        /\ ~domeGroup =>
              /\ faceLabels = EmptyMap
              /\ faceNumberLabels = 0
              /\ domeGroupNumberLabels = <<>>

\* C22: after a rebuild that failed and left the system without a mesh, a
\* later picking call and a later visibility call detect the missing mesh
\* and do nothing: no double click ends in a fault while domeMesh is unset,
\* and a frame without domeGroup or completeGeometry skips the labels.
C22_MissingMeshIsNoOp ==
    [][/\ (phase # "unloaded" /\ ~domeMesh) => lastClick' # "fault"
       /\ (Frame /\ (~domeGroup \/ completeGeometry = 0)) => lastFrame' = "skipped"]_vars

\* C23: startup does not depend on the seed fetch. While the fetch is in
\* flight the render loop runs, and when the fetch fails initialization
\* still completes: no entry is added to the notes, every stored non-blank
\* note gets its label, the numbers of all facets are added, and the
\* selector's change listener is installed (phase "ready").
C23_StartupWithoutSeed ==
    [][/\ phase = "fetching" => ENABLED Frame
       /\ (Frame /\ phase = "fetching") => lastFrame' = "updated"
       /\ (SeedArrives /\ seedFile.kind # "json") =>
             /\ faceData' = faceData
             /\ DOMAIN faceLabels' = {i \in DOMAIN faceData : trim(faceData[i]) # <<>>}
             /\ domeGroupNumberLabels' = <<totalFacesOf(geodesicData)>>
             /\ faceNumberLabels' = totalFacesOf(geodesicData)
             /\ phase' = "ready"]_vars

\* The fetch has failed after a frame was rendered, and the stored note of
\* facet 0 has its label.
C23_FailedFetchStarted ==
    /\ phase = "ready"
    /\ seedFile.kind # "json"
    /\ lastClick = "none"
    /\ lastFrame = "updated"
    /\ pendingTimers = 0
    /\ 0 \in DOMAIN faceLabels
    /\ faceNumberLabels > 0

\* C24: every selector change writes the new value to storage before the
\* rebuild starts: after the change the stored selector holds the text of
\* currentMethod, which is the selected value, and a page load would adopt
\* it, also when the rebuild throws at its earliest point.
C24_SelectorPersisted ==
    [][\A newMethod \in SelectorOptions :
          (\/ SelectMethod(newMethod)
           \/ \E at \in RebuildFailures : SelectMethodFails(newMethod, at)) =>
              /\ currentMethod' = newMethod
              /\ storedMethod' = MethodItem(toString(currentMethod'))
              /\ loadMethodFromStorage(storedMethod', 1) = currentMethod']_vars

\* Method 2 is stored and in force after a rebuild that threw in
\* create2VGeodesicDome, the first call after the save.
C24_PersistedDespiteFailure ==
    /\ phase = "ready"
    /\ currentMethod = 2
    /\ storedMethod = MethodItem(<<"2">>)
    /\ ~domeGroup
    /\ geodesicData = 1

\* C25: one level of subdivision of Method 2's base face table gives, before
\* the hemisphere is cut, 42 vertices (the 12 base vertices and one midpoint
\* for each distinct undirected base edge) and 80 triangles (4 per base face).
C25_SubdivisionCounts ==
    oKind = "m2" =>
        /\ Len(subdividedVertices(domeRadius)) = 42
        /\ Len(subdividedVertices(domeRadius)) = Len(baseVertices) + Len(edges)
        /\ Len(subdividedFaces) = 80
        /\ Len(subdividedFaces) = 4 * Len(baseFaces)

\* The subdivided triangles with all three vertices at height >= -tolerance,
\* in their order.
RetainedTriangles(vertices, faces) ==
    SelectSeq(faces, LAMBDA f : \A j \in 1..3 : vertices[f[j] + 1].y >= -tolerance)

\* The pairs <<original index, output index>> of the corners of the retained
\* triangles and of the output triangles at the same place.
RemapPairs(retained, out) ==
    UNION {{<<retained[k][j], out.faces[k][j]>> : j \in 1..3} : k \in 1..Len(retained)}

\* The output of an extraction is the retained triangles in their order on
\* a dense vertex list: every retained original vertex has one output index,
\* every output index is that of one retained original vertex and holds its
\* position.
DenseRemap(vertices, retained, out) ==
    /\ Len(out.faces) = Len(retained)
    /\ \A p, q \in RemapPairs(retained, out) : (p[1] = q[1]) <=> (p[2] = q[2])
    /\ {p[2] : p \in RemapPairs(retained, out)} = 0..(Len(out.vertices) - 1)
    /\ \A p \in RemapPairs(retained, out) : out.vertices[p[2] + 1] = vertices[p[1] + 1]

\* C26: Method 2's hemisphere extraction keeps, in order, exactly the
\* subdivided triangles whose three vertices all have height >= -tolerance
\* and remaps the surviving vertices to a dense index space: each retained
\* original vertex is in the output once, no output vertex is unreferenced,
\* and every retained triangle refers to the same three points as before.
C26_HemisphereExtraction ==
    oKind = "m2" =>
        DenseRemap(subdividedVertices(domeRadius),
                   RetainedTriangles(subdividedVertices(domeRadius), subdividedFaces),
                   MeshOfKind(oKind))

\* The Method 2 mesh is queried, and its extraction has dropped triangles
\* and vertices of the subdivided sphere and kept others.
C26_TrianglesDropped ==
    /\ oKind = "m2"
    /\ oPc = "queried"
    /\ Len(MeshOfKind(oKind).faces) < Len(subdividedFaces)
    /\ Len(MeshOfKind(oKind).vertices) < Len(subdividedVertices(domeRadius))
    /\ Len(MeshOfKind(oKind).faces) > 0

\* The ring a vertex index of the 4-ring builder lies in: 0 the apex, 1 the
\* ring of 5, 2 the ring of 10, 3 the base ring.
RingOfVertex(v) ==
    IF v = 0 THEN 0 ELSE IF v <= 5 THEN 1 ELSE IF v <= 15 THEN 2 ELSE 3

\* The triangles of a mesh whose corners lie in exactly the rings given.
TrianglesBetween(mesh, rings) ==
    {k \in 1..Len(mesh.faces) : {RingOfVertex(mesh.faces[k][j]) : j \in 1..3} = rings}

\* The vertex indices of a mesh at a height.
VerticesAtHeight(mesh, y) ==
    {i \in 0..(Len(mesh.vertices) - 1) : mesh.vertices[i + 1].y = y}

\* C27: the 4-ring builder gives 26 vertices, the apex, a ring of 5, a ring
\* of 10 and a base ring of 10, and 40 triangles, 5 in the apex fan, 15
\* between the ring of 5 and the first ring of 10 and 20 between the two
\* rings of 10; every vertex is a corner of a triangle and no triangle is
\* repeated.
C27_RingBuilderShape ==
    oKind = "ring" =>
        /\ Len(MeshOfKind(oKind).vertices) = 26
        /\ MeshOfKind(oKind).vertices[1] = Vec(0, domeRadius * Scale, 0)
        /\ VerticesAtHeight(MeshOfKind(oKind), domeRadius * Scale) = {0}
        /\ VerticesAtHeight(MeshOfKind(oKind), domeRadius * 809) = 1..5
        /\ VerticesAtHeight(MeshOfKind(oKind), domeRadius * 309) = 6..15
        /\ VerticesAtHeight(MeshOfKind(oKind), 0) = 16..25
        /\ Len(MeshOfKind(oKind).faces) = 40
        /\ Cardinality(TrianglesBetween(MeshOfKind(oKind), {0, 1})) = 5
        /\ Cardinality(TrianglesBetween(MeshOfKind(oKind), {1, 2})) = 15
        /\ Cardinality(TrianglesBetween(MeshOfKind(oKind), {2, 3})) = 20
        /\ ReferencedPositions(MeshOfKind(oKind)) = Range(MeshOfKind(oKind).vertices)
        /\ UNION {Range(MeshOfKind(oKind).faces[k]) : k \in 1..40} = 0..25
        /\ \A k \in 1..40 : Cardinality(Range(MeshOfKind(oKind).faces[k])) = 3
        /\ Cardinality({Range(MeshOfKind(oKind).faces[k]) : k \in 1..40}) = 40

\* The last facet of the 4-ring mesh, in the base band, has been queried.
C27_BaseBandQueried ==
    /\ oKind = "ring"
    /\ oPc = "queried"
    /\ oFace = 39
    /\ oResult.ok

\* C30: two facets whose centroid heights differ by 0.2 or more are in
\* different levels and the higher one has the smaller number; a level is a
\* run of the height-descending order: no facet of a later level is higher
\* than one of an earlier level, and every facet of a level is less than 0.2
\* below the level's highest facet.
C30_LevelsAreHeightRuns ==
    nPc = "done" =>
        /\ \A f, g \in NumberedFacets :
              /\ CentroidOf(f).y - CentroidOf(g).y >= heightTolerance
                    => (LevelOf(f) < LevelOf(g) /\ nNumbering[f] < nNumbering[g])
              /\ CentroidOf(f).y > CentroidOf(g).y => LevelOf(f) <= LevelOf(g)
        /\ \A l \in 1..Len(nLevels) : \A i \in 1..Len(nLevels[l]) :
              LevelTop(l) - nLevels[l][i].centroid.y < heightTolerance

\* The numbering is done and two facets of neighbouring levels are 0.2 or
\* more apart in height while another of the lower level is closer.
C30_NeighbouringLevelsApart ==
    /\ nPc = "done"
    /\ \E f, g, h \in NumberedFacets :
          /\ LevelOf(g) = LevelOf(f) + 1
          /\ LevelOf(h) = LevelOf(g)
          /\ CentroidOf(f).y - CentroidOf(g).y >= heightTolerance
          /\ CentroidOf(f).y - CentroidOf(h).y < heightTolerance

\* C28: while the modal is open on a facet, a double click anywhere in the
\* window changes neither the facet being edited nor the text typed and not
\* yet saved.
C28_OpenModalKeepsFacet ==
    [][(modalShown /\ \E f \in PickFacets : DoubleClick(f)) =>
          /\ currentFaceIndex' = currentFaceIndex
          /\ textInput' = textInput]_vars

\* C29: in every state, whatever the interleaving of Save, Clear, seed
\* merge, rebuild and deferred callbacks, a label exists only for a facet
\* index that has an entry in the annotation map. (faceLabels is a map, so
\* at most one label is tracked per facet index.)
C29_LabelsOnlyForNotes ==
    DOMAIN faceLabels \subseteq DOMAIN faceData

\* A facet that had a label has been cleared while a rebuild's callback is
\* pending, and another facet still has its label.
C29_ClearedBesideLabel ==
    /\ phase = "ready"
    /\ lastClick = "clear"
    /\ pendingTimers > 0
    /\ \E f \in DOMAIN lastOp :
          lastOp[f].kind = "clear" /\ f \notin DOMAIN faceData /\ f \notin DOMAIN faceLabels
    /\ faceLabels # EmptyMap

====
